---- MODULE Spec2Model ----
(***************************************************************************)
(* A model of the VoxSync voice timing alignment engine:                   *)
(*   src/services/geminiService.ts  (GeminiService, extractFrames,         *)
(*                                   extractAudio, createWavFromFloat)     *)
(*   src/unnamed/part_000           (the App component and its handlers)   *)
(*   src/types.ts                   (VoiceGender, NeuralPersona)           *)
(*                                                                         *)
(* JavaScript numbers are modelled exactly: a number is NaN, an infinity   *)
(* or a rational n/d.  The rounding error of IEEE doubles is not modelled; *)
(* the places where it could matter are marked "exact arithmetic".         *)
(* null and undefined are the empty sequence <<>>, a present value x is    *)
(* the one-element sequence <<x>>.                                         *)
(***************************************************************************)
EXTENDS Integers, Sequences, FiniteSets, TLC

VARIABLES
    \* --- function harness: the arguments and results of the pure helpers
    oldSamples,     \* resampleBuffer / createWavBlob argument (Int16Array)
    newLength,      \* resampleBuffer argument
    newSamples,     \* resampleBuffer result
    sampleRate,     \* createWavBlob / createWavFromFloat argument
    floatSamples,   \* createWavFromFloat argument (Float32Array), in halves
    wav,            \* the bytes of the Blob an encoder returned
    fnDone,         \* which helper has been applied: "none" or its name
    \* --- the App component's state (useState)
    videoFile,      \* null or the selected file
    videoUrl,       \* null or the object URL of the selected file
    isProcessing,
    isExporting,
    script,         \* null or the ScriptOutput of the last script extraction
    finalAudioUrl,  \* null or the object URL of a WAV blob (here: its bytes)
    audioDuration,  \* seconds, in ticks
    error,          \* null or a message
    duration,       \* seconds, in ticks
    config,         \* GenerationConfig: persona and gender
    videoReady,     \* the <video> element has fired loadedmetadata
    \* --- the alignment run started by handleGenerate
    pc,             \* where the run is suspended: the await it waits at
    run,            \* what the run's closure captured: config and duration
    runs,           \* number of runs started
    log,            \* the collaborator requests and responses of the run
    \* --- single-segment previews (playTTS)
    audioContextRef,  \* null or the AudioContext playTTS created
    previews,         \* the playTTS calls waiting at `await textToSpeech`
    previewsStarted,  \* number of playTTS calls made
    played,           \* number of buffer sources started
    lastPreview,      \* how the preview that settled last ended, and where
                      \* the alignment run stood then
    \* --- one call of extractFrames: its <video> element and closure
    exVideo,        \* "none", "loading", "ready" or "failed"
    exDuration,     \* video.duration, a JavaScript number (ticks)
    exCurrent,      \* `current`, the index of the frame to capture next
    exFrames,       \* `frames`: the time and the image of each frame pushed
    pendingSeeks,   \* the seeks requested and not yet completed
    resolved        \* number of times resolve(frames) has been called

fnVars == <<oldSamples, newLength, newSamples, sampleRate, floatSamples, wav, fnDone>>

appVars == <<videoFile, videoUrl, isProcessing, isExporting, script, finalAudioUrl,
             audioDuration, error, duration, config, videoReady>>

runVars == <<pc, run, runs, log>>

previewVars == <<audioContextRef, previews, previewsStarted, played, lastPreview>>

exVars == <<exVideo, exDuration, exCurrent, exFrames, pendingSeeks, resolved>>

vars == <<fnVars, appVars, runVars, previewVars, exVars>>

----------------------------------------------------------------------------
(* Bounds of the model *)

MaxInputLen == 4        \* longest Int16Array handed to a helper
MaxNewLength == 5       \* largest resampling target length
MaxFloatLen == 2        \* longest Float32Array handed to createWavFromFloat
MaxRuns == 2            \* alignment runs started in one behaviour
MaxScenes == 1          \* most segments a script response holds
MaxPayloadBytes == 4    \* longest synthesized audio payload, in bytes
MaxDurationTicks == 5   \* longest video, in ticks
MaxAudioLen == 1        \* longest decoded audio track of the video, in samples
MaxPreviewBytes == 2     \* longest audio payload of a preview, in bytes
MaxPreviews == 1         \* single-segment previews started in one behaviour
MaxWideLen == 3         \* longest array of unrestricted numbers handed to resampleBuffer

\* Times are counted in ticks: one second is SAMPLE_RATE * TicksPerSample
\* ticks, so a duration of k ticks is k / TicksPerSample sample periods.
TicksPerSample == 2

\* sample values the inputs are drawn from: both ends of the int16 range,
\* a negative and a positive small value
SampleVals == {-32768, -3, 2, 32767}
\* Float32 samples in halves (h stands for h/2): below, at and inside [-1, 1]
FloatVals == {-3, -1, 0, 1, 3}
\* numbers an Int16Array cannot hold, and one it can
WideVals == {-40000, -1, 40000}
Rates == {16000, 24000}

SeqsUpTo(S, n) == UNION {[1..k -> S] : k \in 0..n}

----------------------------------------------------------------------------
(* JavaScript values *)

Null == <<>>
Some(x) == <<x>>

NaN == [k |-> "nan", n |-> 0, d |-> 1]
Infinity(s) == [k |-> "inf", n |-> s, d |-> 1]
Rat(n, d) == [k |-> "rat", n |-> n, d |-> d]

Sign(x) == IF x < 0 THEN -1 ELSE IF x > 0 THEN 1 ELSE 0

\* a / b on integers a, b (IEEE: x/0 is an infinity, 0/0 is NaN)
Divide(a, b) ==
    IF b = 0 THEN (IF a = 0 THEN NaN ELSE Infinity(Sign(a)))
    ELSE IF b < 0 THEN Rat(-a, -b) ELSE Rat(a, b)

\* i * x for an integer i (IEEE: 0 * Infinity is NaN)
Times(i, x) ==
    CASE x.k = "nan" -> NaN
      [] x.k = "inf" -> IF i = 0 THEN NaN ELSE Infinity(Sign(i) * x.n)
      [] OTHER -> Rat(i * x.n, x.d)

\* Math.floor of a rational with positive denominator
Floor(x) == x.n \div x.d

\* Math.floor in the place of Math.round
MathRound_Truncating(n, d) == n \div d

\* Math.round of the rational n/d, d > 0: floor(n/d + 1/2)
MathRound(n, d) == (2 * n + d) \div (2 * d)


\* the conversion a typed array applies when an Int16 element is stored
ToInt16(v) == ((v + 32768) % 65536) - 32768

\* the truncation toward zero of n/d, d > 0 (ToIntegerOrInfinity)
Trunc(n, d) == IF n >= 0 THEN n \div d ELSE -((-n) \div d)

\* arr[index] on a typed array: undefined (Null) outside 0..length-1
ElementAt(arr, index) ==
    IF index \in 0..(Len(arr) - 1) THEN Some(arr[index + 1]) ELSE Null

\* newSamples[i] = v where v may be undefined: undefined is stored as 0
StoreInt16(v) == IF v = Null THEN 0 ELSE ToInt16(v[1])

----------------------------------------------------------------------------
(* GeminiService.resampleBuffer *)

SAMPLE_RATE == 24000

\* the same without the bounds test "index + 1 < oldSamples.length"
ResampleAt_Unguarded(old, ratio, i) ==
    LET pos == Times(i, ratio)
    IN  IF pos.k # "rat"
        THEN StoreInt16(Null)
        ELSE LET index == Floor(pos)
                 fracN == pos.n - index * pos.d
                 a == ElementAt(old, index)
                 b == ElementAt(old, index + 1)
             IN  IF a = Null \/ b = Null
                 THEN StoreInt16(Null)          \* undefined * x is NaN, stored as 0
                 ELSE StoreInt16(Some(MathRound(
                          a[1] * (pos.d - fracN) + b[1] * fracN, pos.d)))

\* the value stored at newSamples[i]                (exact arithmetic)
ResampleAt(old, ratio, i) ==
    LET pos == Times(i, ratio)
    IN  IF pos.k # "rat"
        THEN \* index and frac are NaN: NaN + 1 < length is false,
             \* and oldSamples[NaN] is undefined
             StoreInt16(Null)
        ELSE LET index == Floor(pos)
                 fracN == pos.n - index * pos.d      \* frac = fracN / pos.d
             IN  IF index + 1 < Len(old)
                 THEN \* (index >= 0 here: pos is negative only for an empty
                      \* array, where index + 1 < 0 is false)
                      StoreInt16(Some(MathRound(
                          old[index + 1] * (pos.d - fracN) + old[index + 2] * fracN,
                          pos.d)))
                 ELSE StoreInt16(ElementAt(old, index))

resampleBuffer_WrongLength(old, newLen) ==
    LET ratio == Divide(Len(old) - 1, newLen - 1)
    IN  [j \in 1..Len(old) |-> ResampleAt(old, ratio, j - 1)]

resampleBuffer_RatioOffByOne(old, newLen) ==
    LET ratio == Divide(Len(old), newLen)
    IN  [j \in 1..newLen |-> ResampleAt(old, ratio, j - 1)]

resampleBuffer(old, newLen) ==
    LET ratio == Divide(Len(old) - 1, newLen - 1)
    IN  [j \in 1..newLen |-> ResampleAt(old, ratio, j - 1)]

----------------------------------------------------------------------------
(* The WAV encoders *)

\* DataView.setUint32(o, v, true) and setUint16(o, v, true): little-endian
\* (every value written here is in 0..2^31-1, so v mod 2^32 is v)
Uint32LE(v) ==
    <<v % 256, (v \div 256) % 256, (v \div 65536) % 256, (v \div 16777216) % 256>>

Uint16LE(v) ==
    LET u == v % 65536
    IN  <<u % 256, (u \div 256) % 256>>

Int16BE(v) ==
    LET u == v % 65536
    IN  <<(u \div 256) % 256, u % 256>>

\* DataView.setInt16(o, v, true) of an integer v
Int16LE(v) ==
    LET u == v % 65536
    IN  <<u % 256, (u \div 256) % 256>>

\* writeString's charCodeAt of each character
RIFF == <<82, 73, 70, 70>>
WAVE == <<87, 65, 86, 69>>
FMT == <<102, 109, 116, 32>>
DATA == <<100, 97, 116, 97>>

\* The 44 header bytes both encoders write.  The writes are at the offsets
\* 0, 4, 8, 12, 16, 20, 22, 24, 28, 32, 34, 36 and 40 of a zero-filled
\* buffer and each is as long as the gap to the next offset, so the header
\* is the concatenation of the fields in offset order.
WavHeader(n, rate) ==
    RIFF \o Uint32LE(32 + n * 2) \o WAVE \o FMT
        \o Uint32LE(16) \o Uint16LE(1) \o Uint16LE(1)
        \o Uint32LE(rate) \o Uint32LE(rate * 2) \o Uint16LE(2) \o Uint16LE(16)
        \o DATA \o Uint32LE(n * 2)

\* new ArrayBuffer(44 + samples.length * 2) after the header writes and the
\* sample loop `view.setInt16(44 + i * 2, samples[i], true)`; byte offsets
\* start at 0
createWavBlob_BigEndian(samples, rate) ==
    LET header == WavHeader(Len(samples), rate)
    IN  [j \in 0..(44 + Len(samples) * 2 - 1) |->
            IF j < 44 THEN header[j + 1]
            ELSE Int16BE(samples[((j - 44) \div 2) + 1])[((j - 44) % 2) + 1]]

createWavBlob(samples, rate) ==
    LET header == WavHeader(Len(samples), rate)
    IN  [j \in 0..(44 + Len(samples) * 2 - 1) |->
            IF j < 44 THEN header[j + 1]
            ELSE Int16LE(samples[((j - 44) \div 2) + 1])[((j - 44) % 2) + 1]]

\* one Float32 sample h/2 as createWavFromFloat stores it:
\* s = max(-1, min(1, sample)); setInt16(s < 0 ? s * 0x8000 : s * 0x7FFF)
FloatToInt16(h) ==
    LET s == IF h < -2 THEN -2 ELSE IF h > 2 THEN 2 ELSE h
    IN  IF s < 0 THEN Trunc(s * 32768, 2) ELSE Trunc(s * 32767, 2)

createWavFromFloat(samples, rate) ==
    LET header == WavHeader(Len(samples), rate)
    IN  [j \in 0..(44 + Len(samples) * 2 - 1) |->
            IF j < 44 THEN header[j + 1]
            ELSE Int16LE(FloatToInt16(samples[((j - 44) \div 2) + 1]))[((j - 44) % 2) + 1]]

\* a reader of the container: little-endian fields at an offset
ReadUint32LE(bytes, o) ==
    bytes[o] + 256 * bytes[o + 1] + 65536 * bytes[o + 2] + 16777216 * bytes[o + 3]

ReadInt16LE(bytes, o) == ToInt16(bytes[o] + 256 * bytes[o + 1])

DecodeSamples(bytes) ==
    LET size == Cardinality(DOMAIN bytes)
    IN  [j \in 1..((size - 44) \div 2) |-> ReadInt16LE(bytes, 44 + (j - 1) * 2)]

----------------------------------------------------------------------------
(* src/types.ts *)

MAN == "man"
WOMAN == "woman"
VoiceGender == {MAN, WOMAN}

PROFESSIONAL == "Kore"
NARRATOR == "Puck"
AUTHORITATIVE == "Charon"
DYNAMIC == "Zephyr"
NeuralPersona == {PROFESSIONAL, NARRATOR, AUTHORITATIVE, DYNAMIC}

----------------------------------------------------------------------------
(* GeminiService *)

getVoiceName_Unchecked(gender, persona) == persona

getVoiceName(gender, persona) ==
    IF gender = MAN
    THEN (IF persona = NARRATOR \/ persona = AUTHORITATIVE THEN persona ELSE NARRATOR)
    ELSE (IF persona = PROFESSIONAL \/ persona = DYNAMIC THEN persona ELSE PROFESSIONAL)

\* extractFrames resolves with count = 12 frames
FrameCount == 12

\* the outcome of a call that threw or was rejected
Thrown(message) == [ok |-> FALSE, message |-> message, value |-> Null]
Returned(value) == [ok |-> TRUE, message |-> "", value |-> Some(value)]

\* extractAudio: decoded is null when file.arrayBuffer / decodeAudioData
\* threw, else the rendered mono samples; every throw is caught and yields
\* null, else the (base64 of the) WAV of the rendered samples
extractAudio_Rethrow(decoded) ==
    IF decoded = Null THEN Thrown("EncodingError")
    ELSE Returned(Some(createWavFromFloat(decoded[1], 16000)))

extractAudio(decoded) ==
    IF decoded = Null THEN Returned(Null)
    ELSE Returned(Some(createWavFromFloat(decoded[1], 16000)))

\* generateScript up to its await: the parts of the generateContent request
ScriptParts(frames, audioBase64) ==
    (IF audioBase64 # Null THEN <<"audio/wav">> ELSE <<>>)
        \o [j \in 1..frames |-> "image/jpeg"]
        \o <<"text">>

\* generateScript after its await.  A response is rejected (the request
\* failed) or carries a text:
\*   "none"        no text: JSON.parse('{}'),
\*   "malformed"   JSON.parse throws,
\*   "json"        a well-formed object with `scenes` segments
ScriptResponses ==
    {[rejected |-> TRUE, text |-> "none", scenes |-> 0]}
        \cup {[rejected |-> FALSE, text |-> t, scenes |-> 0] : t \in {"none", "malformed"}}
        \cup {[rejected |-> FALSE, text |-> "json", scenes |-> n] : n \in 0..MaxScenes}

generateScript(resp, cfg, dur) ==
    IF resp.rejected THEN Thrown("request failed")
    ELSE IF resp.text = "none"
    THEN \* result = {}: result.scenes.map throws a TypeError
         Thrown("Cannot read properties of undefined (reading 'map')")
    ELSE IF resp.text = "malformed" THEN Thrown("Unexpected token")
    ELSE Returned([metadata |-> [videoDuration |-> dur, audioDuration |-> dur,
                                persona |-> cfg.persona, gender |-> cfg.gender],
                   scenes |-> [j \in 1..resp.scenes |-> [sceneNumber |-> j]]])

\* new Int16Array(audioBytes.buffer, audioBytes.byteOffset, byteLength / 2):
\* little-endian pairs, a trailing odd byte is left out
Int16View(bytes) ==
    [j \in 1..(Len(bytes) \div 2) |->
        ToInt16(bytes[2 * j - 1] + 256 * bytes[2 * j])]

\* Math.round(totalDuration * SAMPLE_RATE), totalDuration in ticks
TargetSampleCount(totalDuration) == MathRound(totalDuration, TicksPerSample)

\* generateFinalAudio after its await.  A response is rejected, or holds
\* the (decoded) inline audio data, null when the response has none
SynthPayloads == SeqsUpTo({1, 255}, MaxPayloadBytes)
SynthResponses ==
    {[rejected |-> TRUE, data |-> Null]}
        \cup {[rejected |-> FALSE, data |-> p] :
                p \in {Null} \cup {Some(b) : b \in SynthPayloads}}

\* !base64Audio: undefined or the empty string
NoPayload(resp) == resp.data = Null \/ resp.data = Some(<<>>)

FinalAudio(originalSamples, targetSampleCount) ==
    LET correctedSamples == resampleBuffer(originalSamples, targetSampleCount)
    IN  [blob |-> createWavBlob(correctedSamples, SAMPLE_RATE),
         actualDuration |-> Len(correctedSamples) * TicksPerSample]

generateFinalAudio_NoPayloadCheck(resp, totalDuration) ==
    IF resp.rejected THEN Thrown("request failed")
    ELSE Returned(FinalAudio(IF NoPayload(resp) THEN <<>> ELSE Int16View(resp.data[1]),
                             TargetSampleCount(totalDuration)))

generateFinalAudio_NoResample(resp, totalDuration) ==
    IF resp.rejected THEN Thrown("request failed")
    ELSE IF NoPayload(resp) THEN Thrown("Voice generation failed.")
    ELSE Returned(FinalAudio(Int16View(resp.data[1]), Len(Int16View(resp.data[1]))))

generateFinalAudio(resp, totalDuration) ==
    IF resp.rejected THEN Thrown("request failed")
    ELSE IF NoPayload(resp) THEN Thrown("Voice generation failed.")
    ELSE Returned(FinalAudio(Int16View(resp.data[1]), TargetSampleCount(totalDuration)))

\* textToSpeech after its await: data ? decodeBase64(data) : null
textToSpeech(resp) ==
    IF resp.rejected THEN Thrown("request failed")
    ELSE Returned(IF NoPayload(resp) THEN Null ELSE Some(resp.data[1]))

\* decodeAudioData: ctx.createBuffer(1, i16.length, 24000) throws a
\* NotSupportedError for a length of 0; else the channel holds i16[i] / 32768
\* (kept here as the numerators i16[i])
decodeAudioData(data) ==
    IF Len(Int16View(data)) = 0 THEN Thrown("NotSupportedError")
    ELSE Returned(Int16View(data))

\* (video.duration / count) * current, the time cap() seeks to
SeekTime(videoDuration, cur) ==
    Times(cur, IF videoDuration.k = "rat"
               THEN Divide(videoDuration.n, FrameCount)
               ELSE videoDuration)

----------------------------------------------------------------------------
(* The App component *)

\* the durations a video may have: none, and two that round differently
Durations == {0, MaxDurationTicks - 1, MaxDurationTicks}

\* the options the persona <select> offers for a gender
PersonaOptions(gender) ==
    IF gender = MAN THEN {NARRATOR, AUTHORITATIVE} ELSE {PROFESSIONAL, DYNAMIC}

InitialConfig == [persona |-> DYNAMIC, gender |-> MAN]

NoRun == [config |-> InitialConfig, duration |-> 0]

\* what a response amounted to, as the log records it
ScriptOutcome(resp) ==
    IF resp.rejected THEN "rejected"
    ELSE IF resp.text # "json" THEN resp.text
    ELSE IF resp.scenes = 0 THEN "noScenes" ELSE "scenes"

SynthOutcome(resp) ==
    IF resp.rejected THEN "rejected" ELSE IF NoPayload(resp) THEN "noPayload" ELSE "audio"

\* an entry of the run's log of collaborator traffic
Event(ev, parts, voice, outcome) ==
    [ev |-> ev, parts |-> parts, voice |-> voice, outcome |-> outcome]

NoPreview == [outcome |-> "", pc |-> "idle"]

AppInit ==
    /\ videoFile = Null
    /\ videoUrl = Null
    /\ isProcessing = FALSE
    /\ isExporting = FALSE
    /\ script = Null
    /\ finalAudioUrl = Null
    /\ audioDuration = 0
    /\ error = Null
    /\ duration = 0
    /\ config = InitialConfig
    /\ videoReady = FALSE
    /\ pc = "idle"
    /\ run = NoRun
    /\ runs = 0
    /\ log = <<>>
    /\ audioContextRef = Null
    /\ previews = <<>>
    /\ previewsStarted = 0
    /\ played = 0
    /\ lastPreview = NoPreview
    /\ exVideo = "none"
    /\ exDuration = NaN
    /\ exCurrent = 0
    /\ exFrames = <<>>
    /\ pendingSeeks = <<>>
    /\ resolved = 0

\* handleFileChange with a file; the input is rendered only while !videoUrl
HandleFileChange ==
    /\ videoUrl = Null
    /\ error' = Null
    /\ videoFile' = Some("file")
    /\ videoUrl' = Some("blob:file")
    /\ script' = Null
    /\ finalAudioUrl' = Null
    /\ audioDuration' = 0
    /\ UNCHANGED <<isProcessing, isExporting, duration, config, videoReady>>
    /\ UNCHANGED <<runVars, fnVars, previewVars, exVars>>

\* the <video> element's onLoadedMetadata: setDuration(video.duration || 0)
LoadedMetadata ==
    /\ videoUrl # Null
    /\ ~videoReady
    /\ videoReady' = TRUE
    /\ \E d \in Durations : duration' = d
    /\ UNCHANGED <<videoFile, videoUrl, isProcessing, isExporting, script,
                   finalAudioUrl, audioDuration, error, config>>
    /\ UNCHANGED <<runVars, fnVars, previewVars, exVars>>

\* the Man / Woman buttons
SetGender ==
    /\ \E g \in VoiceGender :
          /\ g # config.gender
          /\ config' = [config EXCEPT !.gender = g]
    /\ UNCHANGED <<videoFile, videoUrl, isProcessing, isExporting, script,
                   finalAudioUrl, audioDuration, error, duration, videoReady>>
    /\ UNCHANGED <<runVars, fnVars, previewVars, exVars>>

\* the persona <select>, which offers the personas of the current gender
SetPersona ==
    /\ \E p \in PersonaOptions(config.gender) :
          /\ p # config.persona
          /\ config' = [config EXCEPT !.persona = p]
    /\ UNCHANGED <<videoFile, videoUrl, isProcessing, isExporting, script,
                   finalAudioUrl, audioDuration, error, duration, videoReady>>
    /\ UNCHANGED <<runVars, fnVars, previewVars, exVars>>

\* handleGenerate without its setIsProcessing(true)
ClickGenerate_NoProcessingFlag ==
    /\ videoFile # Null /\ ~isProcessing /\ ~isExporting
    /\ runs < MaxRuns
    /\ error' = Null
    /\ finalAudioUrl' = Null
    /\ run' = [config |-> config, duration |-> duration]
    /\ runs' = runs + 1
    /\ log' = <<>>
    /\ pc' = "extractFrames"
    /\ UNCHANGED <<videoFile, videoUrl, isProcessing, isExporting, script, audioDuration,
                   duration, config, videoReady>>
    /\ UNCHANGED <<fnVars, previewVars, exVars>>

\* handleGenerate up to `await extractFrames(videoFile)`; the button is
\* disabled while !videoFile || isProcessing || isExporting
ClickGenerate ==
    /\ videoFile # Null /\ ~isProcessing /\ ~isExporting
    /\ runs < MaxRuns
    /\ isProcessing' = TRUE
    /\ error' = Null
    /\ finalAudioUrl' = Null
    /\ run' = [config |-> config, duration |-> duration]
    /\ runs' = runs + 1
    /\ log' = <<>>
    /\ pc' = "extractFrames"
    /\ UNCHANGED <<videoFile, videoUrl, isExporting, script, audioDuration,
                   duration, config, videoReady>>
    /\ UNCHANGED <<fnVars, previewVars, exVars>>

\* extractFrames resolves; handleGenerate goes on to `await extractAudio`
ExtractFramesResolved ==
    /\ pc = "extractFrames"
    /\ pc' = "extractAudio"
    /\ UNCHANGED <<appVars, run, runs, log, fnVars, previewVars, exVars>>

\* the catch block without the finally block
FailRun_NoFinally(message) ==
    /\ error' = Some(IF message # "" THEN message ELSE "Error aligning timing anchors.")
    /\ UNCHANGED isProcessing
    /\ pc' = "idle"

\* the end of handleGenerate by its catch and finally blocks
FailRun(message) ==
    /\ error' = Some(IF message # "" THEN message ELSE "Error aligning timing anchors.")
    /\ isProcessing' = FALSE
    /\ pc' = "idle"

\* extractAudio settles; handleGenerate calls generateScript, which builds
\* the parts and awaits the script-extraction request
ExtractAudioSettled ==
    /\ pc = "extractAudio"
    /\ \E decoded \in {Null} \cup {Some(f) : f \in SeqsUpTo(FloatVals, MaxAudioLen)} :
          LET audio == extractAudio(decoded)
              seen == Append(log, Event("extractAudio", <<>>, "",
                                        IF decoded = Null THEN "decodeFailed" ELSE "decoded"))
          IN  IF audio.ok
              THEN /\ log' = Append(seen, Event("scriptRequest",
                                                ScriptParts(FrameCount, audio.value[1]),
                                                "", ""))
                   /\ pc' = "generateScript"
                   /\ UNCHANGED <<error, isProcessing>>
              ELSE /\ FailRun(audio.message)
                   /\ log' = seen
    /\ UNCHANGED <<videoFile, videoUrl, isExporting, script, finalAudioUrl,
                   audioDuration, duration, config, videoReady>>
    /\ UNCHANGED <<run, runs, fnVars, previewVars, exVars>>

\* handleGenerate with generateScript's exception swallowed: the run goes on
\* to handleGenerateFinalVO with the script it had
ScriptSettled_ContinuesOnError ==
    /\ pc = "generateScript"
    /\ \E resp \in ScriptResponses :
          LET generated == generateScript(resp, run.config, run.duration)
              seen == Append(log, Event("scriptResponse", <<>>, "", ScriptOutcome(resp)))
          IN  /\ script' = IF generated.ok THEN generated.value ELSE script
              /\ log' = Append(seen,
                           Event("synthRequest", <<>>,
                                 getVoiceName(run.config.gender, run.config.persona),
                                 ""))
    /\ isExporting' = TRUE
    /\ pc' = "generateFinalAudio"
    /\ UNCHANGED <<error, isProcessing>>
    /\ UNCHANGED <<videoFile, videoUrl, finalAudioUrl, audioDuration, duration,
                   config, videoReady>>
    /\ UNCHANGED <<run, runs, fnVars, previewVars, exVars>>

\* the script-extraction request settles: generateScript returns or throws;
\* on a return handleGenerate sets the script and calls handleGenerateFinalVO,
\* which sets isExporting and awaits generateFinalAudio's synthesis request
ScriptSettled ==
    /\ pc = "generateScript"
    /\ \E resp \in ScriptResponses :
          LET generated == generateScript(resp, run.config, run.duration)
              seen == Append(log, Event("scriptResponse", <<>>, "", ScriptOutcome(resp)))
          IN  IF generated.ok
              THEN /\ script' = generated.value
                   /\ isExporting' = TRUE
                   /\ log' = Append(seen,
                                Event("synthRequest", <<>>,
                                      getVoiceName(run.config.gender, run.config.persona),
                                      ""))
                   /\ pc' = "generateFinalAudio"
                   /\ UNCHANGED <<error, isProcessing>>
              ELSE /\ FailRun(generated.message)
                   /\ log' = seen
                   /\ UNCHANGED <<script, isExporting>>
    /\ UNCHANGED <<videoFile, videoUrl, finalAudioUrl, audioDuration, duration,
                   config, videoReady>>
    /\ UNCHANGED <<run, runs, fnVars, previewVars, exVars>>

\* the synthesis request settles: generateFinalAudio returns or throws,
\* handleGenerateFinalVO exposes the result or sets the error and clears
\* isExporting, and handleGenerate's finally clears isProcessing
SynthSettled ==
    /\ pc = "generateFinalAudio"
    /\ \E resp \in SynthResponses :
          LET result == generateFinalAudio(resp, run.duration)
          IN  /\ log' = Append(log, Event("synthResponse", <<>>, "", SynthOutcome(resp)))
              /\ IF result.ok
                 THEN /\ finalAudioUrl' = Some(result.value[1].blob)
                      /\ audioDuration' = result.value[1].actualDuration
                      /\ UNCHANGED error
                 ELSE /\ error' = Some("Internal timing alignment failed.")
                      /\ UNCHANGED <<finalAudioUrl, audioDuration>>
    /\ isExporting' = FALSE
    /\ isProcessing' = FALSE
    /\ pc' = "idle"
    /\ UNCHANGED <<videoFile, videoUrl, script, duration, config, videoReady>>
    /\ UNCHANGED <<run, runs, fnVars, previewVars, exVars>>

\* textToSpeech's responses: rejected, or the inline data, null when absent
PreviewResponses ==
    {[rejected |-> TRUE, data |-> Null]}
        \cup {[rejected |-> FALSE, data |-> p] :
                p \in {Null} \cup {Some(b) : b \in SeqsUpTo({255}, MaxPreviewBytes)}}

\* how a playTTS call ends once textToSpeech settled with resp
PreviewOutcome(resp) ==
    LET bytes == textToSpeech(resp)
    IN  IF ~bytes.ok THEN "rejected"
        ELSE IF bytes.value[1] = Null THEN "noPayload"
        ELSE IF ~decodeAudioData(bytes.value[1][1]).ok THEN "undecodable"
        ELSE "played"

\* playTTS(scene) up to `await textToSpeech`; the PREVIEW SLOT buttons are
\* rendered, one for each scene, only while script && !isProcessing
PlayTTS ==
    /\ script # Null /\ ~isProcessing
    /\ previewsStarted < MaxPreviews
    /\ \E scene \in 1..Len(script[1].scenes) :
          previews' = Append(previews,
                             [scene |-> scene,
                              voice |-> getVoiceName(config.gender, config.persona)])
    /\ previewsStarted' = previewsStarted + 1
    /\ audioContextRef' = Some("AudioContext")
    /\ UNCHANGED <<played, lastPreview>>
    /\ UNCHANGED <<appVars, runVars, fnVars, exVars>>

\* playTTS whose catch block reports the failure as handleGenerateFinalVO's does
PreviewSettled_SurfacesError ==
    /\ \E i \in 1..Len(previews) : \E resp \in PreviewResponses :
          /\ previews' = SubSeq(previews, 1, i - 1) \o SubSeq(previews, i + 1, Len(previews))
          /\ lastPreview' = [outcome |-> PreviewOutcome(resp), pc |-> pc]
          /\ played' = IF PreviewOutcome(resp) = "played" THEN played + 1 ELSE played
          /\ error' = IF PreviewOutcome(resp) = "played" THEN error
                      ELSE Some("Internal timing alignment failed.")
    /\ UNCHANGED <<audioContextRef, previewsStarted>>
    /\ UNCHANGED <<videoFile, videoUrl, isProcessing, isExporting, script, finalAudioUrl,
                   audioDuration, duration, config, videoReady>>
    /\ UNCHANGED <<runVars, fnVars, exVars>>

\* a textToSpeech request settles and its playTTS call runs to its end:
\* the buffer source is started when there are bytes and they decode; every
\* exception is caught and dropped.  No React state is set.
PreviewSettled ==
    /\ \E i \in 1..Len(previews) : \E resp \in PreviewResponses :
          /\ previews' = SubSeq(previews, 1, i - 1) \o SubSeq(previews, i + 1, Len(previews))
          /\ lastPreview' = [outcome |-> PreviewOutcome(resp), pc |-> pc]
          /\ played' = IF PreviewOutcome(resp) = "played" THEN played + 1 ELSE played
    /\ UNCHANGED <<audioContextRef, previewsStarted>>
    /\ UNCHANGED <<appVars, runVars, fnVars, exVars>>

FnUnused ==
    /\ oldSamples = <<>>
    /\ newLength = 0
    /\ sampleRate = SAMPLE_RATE
    /\ floatSamples = <<>>
    /\ newSamples = <<>>
    /\ wav = <<>>
    /\ fnDone = "none"

Init == AppInit /\ FnUnused

Next ==
    \/ HandleFileChange
    \/ LoadedMetadata
    \/ SetGender
    \/ SetPersona
    \/ ClickGenerate
    \/ ExtractFramesResolved
    \/ ExtractAudioSettled
    \/ ScriptSettled
    \/ SynthSettled

Spec == Init /\ [][Next]_vars

\* the alignment runs and the previews under the configuration the App
\* starts with
PreviewNext ==
    \/ HandleFileChange
    \/ LoadedMetadata
    \/ ClickGenerate
    \/ ExtractFramesResolved
    \/ ExtractAudioSettled
    \/ ScriptSettled
    \/ SynthSettled
    \/ PlayTTS
    \/ PreviewSettled

SpecPreview == Init /\ [][PreviewNext]_vars

\* the alignment runs alone, under the configuration the App starts with
RunNext ==
    \/ HandleFileChange
    \/ LoadedMetadata
    \/ ClickGenerate
    \/ ExtractFramesResolved
    \/ ExtractAudioSettled
    \/ ScriptSettled
    \/ SynthSettled

\* Every collaborator call a run awaits (frame extraction, audio
\* extraction, script extraction, speech synthesis) eventually returns or
\* fails: the continuation of each await is eventually run.
SpecRuns ==
    /\ Init
    /\ [][RunNext]_vars
    /\ WF_vars(ExtractFramesResolved)
    /\ WF_vars(ExtractAudioSettled)
    /\ WF_vars(ScriptSettled)
    /\ WF_vars(SynthSettled)

----------------------------------------------------------------------------
(* extractFrames, seek by seek *)

\* what canvas.toDataURL may return for a frame
Images == {"jpegA", "jpegB"}

\* video.duration once the metadata is loaded: finite, or Infinity (a
\* recording without a duration in its header)
VideoDurations == {Rat(d, 1) : d \in Durations} \cup {Infinity(1)}

\* cap() with `current > count` for its test
cap_OffByOne(cur, videoDuration, seeks, res) ==
    IF cur > FrameCount
    THEN [pendingSeeks |-> seeks, resolved |-> res + 1]
    ELSE IF SeekTime(videoDuration, cur).k = "rat"
    THEN [pendingSeeks |-> Append(seeks, SeekTime(videoDuration, cur)), resolved |-> res]
    ELSE [pendingSeeks |-> seeks, resolved |-> res]

\* cap(): resolve(frames) once `current` reached `count`, else seek to the
\* next frame time.  Assigning a NaN to video.currentTime throws a TypeError:
\* no seek starts, and the handler that called cap() ends there.
cap(cur, videoDuration, seeks, res) ==
    IF cur >= FrameCount
    THEN [pendingSeeks |-> seeks, resolved |-> res + 1]
    ELSE IF SeekTime(videoDuration, cur).k = "rat"
    THEN [pendingSeeks |-> Append(seeks, SeekTime(videoDuration, cur)), resolved |-> res]
    ELSE [pendingSeeks |-> seeks, resolved |-> res]

\* extractFrames(file) up to the return of its promise: the <video> element
\* is created and given its src
CallExtractFrames ==
    /\ exVideo = "none"
    /\ exVideo' = "loading"
    /\ UNCHANGED <<exDuration, exCurrent, exFrames, pendingSeeks, resolved>>
    /\ UNCHANGED <<appVars, runVars, fnVars, previewVars>>

\* video.onloadedmetadata
ExLoadedMetadata ==
    /\ exVideo = "loading"
    /\ exVideo' = "ready"
    /\ \E d \in VideoDurations :
          /\ exDuration' = d
          /\ pendingSeeks' = cap(0, d, pendingSeeks, resolved).pendingSeeks
          /\ resolved' = cap(0, d, pendingSeeks, resolved).resolved
    /\ exFrames' = <<>>
    /\ exCurrent' = 0
    /\ UNCHANGED <<appVars, runVars, fnVars, previewVars>>

\* the video fails to load: an error event, for which extractFrames
\* installs no handler
ExLoadError ==
    /\ exVideo = "loading"
    /\ exVideo' = "failed"
    /\ UNCHANGED <<exDuration, exCurrent, exFrames, pendingSeeks, resolved>>
    /\ UNCHANGED <<appVars, runVars, fnVars, previewVars>>

\* video.onseeked, for the oldest seek requested
ExSeeked ==
    /\ pendingSeeks # <<>>
    /\ \E image \in Images :
          exFrames' = Append(exFrames, [time |-> Head(pendingSeeks), image |-> image])
    /\ exCurrent' = exCurrent + 1
    /\ pendingSeeks' = cap(exCurrent + 1, exDuration, Tail(pendingSeeks), resolved).pendingSeeks
    /\ resolved' = cap(exCurrent + 1, exDuration, Tail(pendingSeeks), resolved).resolved
    /\ UNCHANGED <<exVideo, exDuration>>
    /\ UNCHANGED <<appVars, runVars, fnVars, previewVars>>

FramesNext ==
    \/ CallExtractFrames
    \/ ExLoadedMetadata
    \/ ExLoadError
    \/ ExSeeked

\* The browser settles the load of a video one way or the other, and
\* completes every seek with a seeked event.
SpecFrames ==
    /\ Init
    /\ [][FramesNext]_vars
    /\ WF_vars(ExLoadedMetadata \/ ExLoadError)
    /\ WF_vars(ExSeeked)

----------------------------------------------------------------------------
(* The helpers applied to inputs drawn from bounded sets *)

FnIdle ==
    /\ newSamples = <<>>
    /\ wav = <<>>
    /\ fnDone = "none"

ResampleInit ==
    /\ oldSamples \in SeqsUpTo(SampleVals, MaxInputLen)
    /\ newLength \in 0..MaxNewLength
    /\ sampleRate = SAMPLE_RATE
    /\ floatSamples = <<>>
    /\ FnIdle
    /\ AppInit

CallResampleBuffer ==
    /\ fnDone = "none"
    /\ newSamples' = resampleBuffer(oldSamples, newLength)
    /\ fnDone' = "resampleBuffer"
    /\ UNCHANGED <<oldSamples, newLength, sampleRate, floatSamples, wav>>
    /\ UNCHANGED <<appVars, runVars, previewVars, exVars>>

ResampleNext == CallResampleBuffer

SpecResample == ResampleInit /\ [][ResampleNext]_vars

\* resampleBuffer's body applied to an array of numbers that is not an
\* Int16Array: the parameter type is erased at run time and the body only
\* reads .length and indexes.  (generateFinalAudio, the only caller, passes
\* an Int16Array.)
ResampleWideInit ==
    /\ oldSamples \in SeqsUpTo(WideVals, MaxWideLen)
    /\ newLength \in 0..MaxNewLength
    /\ sampleRate = SAMPLE_RATE
    /\ floatSamples = <<>>
    /\ FnIdle
    /\ AppInit

SpecResampleWide == ResampleWideInit /\ [][ResampleNext]_vars

WavInit ==
    /\ \/ oldSamples \in SeqsUpTo(SampleVals, MaxInputLen) /\ floatSamples = <<>>
       \/ oldSamples = <<>> /\ floatSamples \in SeqsUpTo(FloatVals, MaxFloatLen)
    /\ newLength = 0
    /\ sampleRate \in Rates
    /\ FnIdle
    /\ AppInit

CallCreateWavBlob ==
    /\ fnDone = "none"
    /\ wav' = createWavBlob(oldSamples, sampleRate)
    /\ fnDone' = "createWavBlob"
    /\ UNCHANGED <<oldSamples, newLength, newSamples, sampleRate, floatSamples>>
    /\ UNCHANGED <<appVars, runVars, previewVars, exVars>>

CallCreateWavFromFloat ==
    /\ fnDone = "none"
    /\ wav' = createWavFromFloat(floatSamples, sampleRate)
    /\ fnDone' = "createWavFromFloat"
    /\ UNCHANGED <<oldSamples, newLength, newSamples, sampleRate, floatSamples>>
    /\ UNCHANGED <<appVars, runVars, previewVars, exVars>>

WavNext == CallCreateWavBlob \/ CallCreateWavFromFloat

SpecWav == WavInit /\ [][WavNext]_vars

----------------------------------------------------------------------------
(* Claims *)

\* C1: for every input sample sequence (empty and one-sample included) and
\* every target length N >= 0, resampleBuffer(input, N) returns exactly N
\* samples.
C1_ExactLength ==
    fnDone = "resampleBuffer" => Len(newSamples) = newLength

C1_Witness ==
    /\ fnDone = "resampleBuffer"
    /\ Len(oldSamples) = 1
    /\ newLength = 3
    /\ Len(newSamples) = 3

\* C2: the WAV bytes an encoder produces declare a RIFF chunk size (the
\* little-endian 32-bit value at byte offset 4) of 36 + 2*len(samples) and a
\* data chunk size (at byte offset 40) of 2*len(samples).
C2_HeaderSizes ==
    fnDone \in {"createWavBlob", "createWavFromFloat"} =>
        LET n == IF fnDone = "createWavBlob" THEN Len(oldSamples) ELSE Len(floatSamples)
        IN  /\ ReadUint32LE(wav, 4) = 36 + 2 * n
            /\ ReadUint32LE(wav, 40) = 2 * n

\* C4: for every non-empty input (a one-sample input included),
\* resampleBuffer(input, input.length) equals input sample for sample.
C4_Identity ==
    (fnDone = "resampleBuffer" /\ Len(oldSamples) >= 1 /\ newLength = Len(oldSamples))
        => newSamples = oldSamples

\* C5: for every non-empty input and every target length N >= 2, the first
\* output sample equals input[0] and the last one (index N-1) equals the last
\* input sample.
C5_Boundaries ==
    (fnDone = "resampleBuffer" /\ Len(oldSamples) >= 1 /\ newLength >= 2)
        => /\ newSamples[1] = oldSamples[1]
           /\ newSamples[newLength] = oldSamples[Len(oldSamples)]

C5_Witness ==
    /\ fnDone = "resampleBuffer"
    /\ Len(oldSamples) = 3
    /\ newLength = 5
    /\ oldSamples[1] = -32768 /\ oldSamples[3] = 32767
    /\ newSamples[1] = -32768 /\ newSamples[5] = 32767

\* C7: reading the sample rate at byte offset 24 and the little-endian 16-bit
\* samples from byte offset 44 onward of createWavBlob's output gives back
\* exactly the encoded rate and exactly the encoded samples, in order and in
\* number.
C7_RoundTrip ==
    fnDone = "createWavBlob" =>
        /\ ReadUint32LE(wav, 24) = sampleRate
        /\ DecodeSamples(wav) = oldSamples

C7_Witness ==
    /\ fnDone = "createWavBlob"
    /\ Len(oldSamples) = 3
    /\ oldSamples[1] = -32768 /\ oldSamples[2] = 2 /\ oldSamples[3] = -3
    /\ wav[44] = 0 /\ wav[45] = 128 /\ wav[46] = 2 /\ wav[48] = 253 /\ wav[49] = 255

\* C3: in a full alignment run, when script extraction returns a well-formed
\* response with zero segments, the run fails with a script-extraction error
\* and no speech-synthesis call is ever issued in that run.
C3_EmptyScriptFails ==
    (\E i \in DOMAIN log : log[i].ev = "scriptResponse" /\ log[i].outcome = "noScenes")
        => /\ \A j \in DOMAIN log : log[j].ev # "synthRequest"
           /\ pc = "idle"
           /\ error # Null

\* C6: for every (gender, persona) pair, the voice the synthesis request
\* carries is the persona itself when it belongs to the gender's own set
\* (MAN: Narrator, Authoritative; WOMAN: Professional, Dynamic) and that
\* gender's default otherwise (MAN: Narrator, WOMAN: Professional); it is
\* never an id of the other gender's set, and the two sets are disjoint.
C6_OwnSet(gender) ==
    IF gender = MAN THEN {NARRATOR, AUTHORITATIVE} ELSE {PROFESSIONAL, DYNAMIC}

C6_Default(gender) == IF gender = MAN THEN NARRATOR ELSE PROFESSIONAL

C6_VoiceFallback ==
    \A i \in DOMAIN log :
        log[i].ev = "synthRequest" =>
            LET g == run.config.gender
                p == run.config.persona
                other == IF g = MAN THEN WOMAN ELSE MAN
            IN  /\ p \in C6_OwnSet(g) => log[i].voice = p
                /\ p \notin C6_OwnSet(g) => log[i].voice = C6_Default(g)
                /\ log[i].voice \notin C6_OwnSet(other)
                /\ C6_OwnSet(g) \cap C6_OwnSet(other) = {}

C6_Witness ==
    /\ run.config = [persona |-> NARRATOR, gender |-> WOMAN]
    /\ \E i \in DOMAIN log : log[i].ev = "synthRequest" /\ log[i].voice = PROFESSIONAL

\* C8: when the speech synthesis returns no audio payload, the run ends with
\* an error reported and no audio artifact exposed; an artifact is exposed
\* only by a run whose generateFinalAudio returned (resampling and WAV
\* encoding completed).
C8_NoPartialArtifact ==
    /\ (\E i \in DOMAIN log : log[i].ev = "synthResponse" /\ log[i].outcome = "noPayload")
          => /\ pc = "idle"
             /\ error = Some("Internal timing alignment failed.")
             /\ finalAudioUrl = Null
    /\ finalAudioUrl # Null
          => /\ pc = "idle"
             /\ \E i \in DOMAIN log : log[i].ev = "synthResponse" /\ log[i].outcome = "audio"

C8_Witness ==
    /\ runs = 2
    /\ audioDuration > 0
    /\ \E i \in DOMAIN log : log[i].ev = "synthResponse" /\ log[i].outcome = "noPayload"
    /\ error # Null
    /\ finalAudioUrl = Null
    /\ ~isProcessing /\ ~isExporting

\* C9: a successful generateFinalAudio exposes an artifact whose sample
\* count is exactly round(d * 24000) for the run's target duration d, and
\* whose actualDuration is that count / 24000, so |actualDuration - d| is at
\* most one sample period, whatever the length of the synthesized audio.
\* (In ticks: d = run.duration, one sample period = TicksPerSample.)
C9_SampleCount == (Cardinality(DOMAIN finalAudioUrl[1]) - 44) \div 2

C9_ExactDuration ==
    (\E i \in DOMAIN log : log[i].ev = "synthResponse" /\ log[i].outcome = "audio")
        => /\ finalAudioUrl # Null
           /\ Cardinality(DOMAIN finalAudioUrl[1]) = 44 + 2 * C9_SampleCount
           /\ ReadUint32LE(finalAudioUrl[1], 40) = 2 * C9_SampleCount
           /\ ReadUint32LE(finalAudioUrl[1], 24) = SAMPLE_RATE
           \* the count is d * 24000 rounded to the nearest integer, ties up
           /\ -TicksPerSample <= 2 * (run.duration - C9_SampleCount * TicksPerSample)
           /\ 2 * (run.duration - C9_SampleCount * TicksPerSample) < TicksPerSample
           /\ audioDuration = C9_SampleCount * TicksPerSample
           /\ audioDuration - run.duration <= TicksPerSample
           /\ run.duration - audioDuration <= TicksPerSample

C9_Witness ==
    /\ \E i \in DOMAIN log : log[i].ev = "synthResponse" /\ log[i].outcome = "audio"
    /\ run.duration = 5
    /\ C9_SampleCount = 3
    /\ audioDuration = 6

\* C10: when the audio of the source video fails to decode, extractAudio
\* yields null instead of an error, the run still issues the script
\* extraction request, and that request carries only the frame parts and
\* the text part (no audio part).
C10_FramesOnly ==
    \A i \in DOMAIN log :
        (log[i].ev = "extractAudio" /\ log[i].outcome = "decodeFailed")
            => /\ i + 1 \in DOMAIN log
               /\ log[i + 1].ev = "scriptRequest"
               /\ log[i + 1].parts = [j \in 1..FrameCount |-> "image/jpeg"] \o <<"text">>
               /\ \A j \in DOMAIN log[i + 1].parts : log[i + 1].parts[j] # "audio/wav"

C10_Witness ==
    /\ pc = "generateScript"
    /\ Len(log) = 2
    /\ log[1].ev = "extractAudio" /\ log[1].outcome = "decodeFailed"
    /\ log[2].ev = "scriptRequest" /\ Len(log[2].parts) = 13
    /\ error = Null

\* The interpolation of output index i as the specification states it, in
\* integers: with L = len(input), N = len(output) and D = N - 1,
\* pos = i*(L-1)/D, base = floor(pos), frac = r/D.
ClaimBase(i) == (i * (Len(oldSamples) - 1)) \div (newLength - 1)

ClaimRem(i) == i * (Len(oldSamples) - 1) - ClaimBase(i) * (newLength - 1)

\* (newLength - 1) times input[base]*(1-frac) + input[base+1]*frac
ClaimNumerator(i) ==
    oldSamples[ClaimBase(i) + 1] * ((newLength - 1) - ClaimRem(i))
        + oldSamples[ClaimBase(i) + 2] * ClaimRem(i)

\* the interpolated value before it is stored
ClaimValue(i) ==
    IF ClaimBase(i) + 1 < Len(oldSamples)
    THEN (2 * ClaimNumerator(i) + (newLength - 1)) \div (2 * (newLength - 1))
    ELSE oldSamples[ClaimBase(i) + 1]

C12_OneSample ==
    (fnDone = "resampleBuffer" /\ Len(oldSamples) = 1 /\ newLength > 1) =>
        /\ Len(newSamples) = newLength
        /\ \A j \in 1..newLength : newSamples[j] = oldSamples[1]

C12_Witness ==
    /\ fnDone = "resampleBuffer"
    /\ oldSamples = <<-3>>
    /\ newLength = 4
    /\ newSamples = <<-3, -3, -3, -3>>

\* C13: for input length L >= 2, target length N >= 2 and every output index
\* i, with pos = i*(L-1)/(N-1), base = floor(pos) and frac = pos - base: base
\* lies in 0..L-1, and output[i] is input[base]*(1-frac) + input[base+1]*frac
\* rounded to the nearest integer when base + 1 < L, and input[base] when
\* base + 1 = L.
C13_Interpolation ==
    (fnDone = "resampleBuffer" /\ Len(oldSamples) >= 2 /\ newLength >= 2) =>
        \A i \in 0..(newLength - 1) :
            /\ ClaimBase(i) \in 0..(Len(oldSamples) - 1)
            /\ IF ClaimBase(i) + 1 < Len(oldSamples)
               THEN \* |output - exact value| <= 1/2
                    2 * (newSamples[i + 1] * (newLength - 1) - ClaimNumerator(i))
                        \in (-(newLength - 1))..(newLength - 1)
               ELSE /\ ClaimBase(i) + 1 = Len(oldSamples)
                    /\ newSamples[i + 1] = oldSamples[ClaimBase(i) + 1]

\* an upsampling whose middle output falls between two unequal samples
C13_Witness ==
    /\ fnDone = "resampleBuffer"
    /\ oldSamples = <<-3, 2>>
    /\ newLength = 3
    /\ newSamples = <<-3, 0, 2>>

\* C18: for every non-empty input and every target length N >= 1 (N = 1
\* included), every output sample lies between the minimum and the maximum
\* of the input samples.
C18_WithinInputRange ==
    (fnDone = "resampleBuffer" /\ Len(oldSamples) >= 1 /\ newLength >= 1) =>
        \A j \in 1..Len(newSamples) :
            /\ \E a \in 1..Len(oldSamples) : oldSamples[a] <= newSamples[j]
            /\ \E b \in 1..Len(oldSamples) : newSamples[j] <= oldSamples[b]

\* the entries of the current run's log that are requests to the external
\* collaborators, and those that end the run in failure
IsRequest(e) == e.ev \in {"scriptRequest", "synthRequest"}

IsFailure(e) ==
    \/ e.ev = "scriptResponse" /\ e.outcome \in {"rejected", "none", "malformed"}
    \/ e.ev = "synthResponse" /\ e.outcome \in {"rejected", "noPayload"}

IsScriptSuccess(e) == e.ev = "scriptResponse" /\ e.outcome \in {"scenes", "noScenes"}

IsSynthSuccess(e) == e.ev = "synthResponse" /\ e.outcome = "audio"

\* C14: in every full alignment run the external requests issued form a
\* prefix of <script extraction, speech synthesis>: each is issued at most
\* once, synthesis only after script extraction has returned successfully,
\* and no request is issued after the run has failed.
C14_RequestOrder ==
    LET requests == SelectSeq(log, IsRequest)
    IN  /\ Len(requests) <= 2
        /\ Len(requests) >= 1 => requests[1].ev = "scriptRequest"
        /\ Len(requests) = 2 => requests[2].ev = "synthRequest"
        /\ \A i \in 1..Len(log) :
              /\ log[i].ev = "synthRequest" =>
                    \E j \in 1..(i - 1) : IsScriptSuccess(log[j])
              /\ IsRequest(log[i]) =>
                    \A j \in 1..(i - 1) : ~IsFailure(log[j])

\* a second run whose script extraction failed after its request, with no
\* synthesis request following
C14_Witness ==
    /\ runs = 2
    /\ pc = "idle"
    /\ Len(SelectSeq(log, IsRequest)) = 1
    /\ IsFailure(log[Len(log)])

\* C16: once a new run has started, the script, the audio artifact and the
\* artifact duration that are exposed are either absent or were produced by
\* that run, also when the run ends in failure.
C16_NothingFromEarlierRun ==
    runs >= 1 =>
        /\ script # Null => \E i \in 1..Len(log) : IsScriptSuccess(log[i])
        /\ finalAudioUrl # Null => \E i \in 1..Len(log) : IsSynthSuccess(log[i])
        /\ audioDuration # 0 => \E i \in 1..Len(log) : IsSynthSuccess(log[i])

\* C19: a generate request is accepted only while neither the processing nor
\* the exporting flag is set and no run is in flight, and the processing flag
\* is set for as long as a run is in flight, through the end of its
\* synthesis/encode stage.
C19_SingleRun ==
    /\ [](isProcessing <=> pc # "idle")
    /\ [](isExporting => pc = "generateFinalAudio")
    /\ [][runs' # runs => (~isProcessing /\ ~isExporting /\ pc = "idle")]_vars

\* a second run, accepted after the first one ended, in its synthesis stage
C19_Witness ==
    /\ runs = 2
    /\ pc = "generateFinalAudio"
    /\ isProcessing /\ isExporting

\* C15: a single-segment preview whose synthesis returns no audio payload or
\* raises an error plays no audio and leaves the error, the script, the final
\* audio artifact, the artifact duration and the processing and exporting
\* flags unchanged, wherever an interleaved alignment run stands.
C15_FailedPreviewFrame ==
    [][(Len(previews') < Len(previews) /\ lastPreview'.outcome \in {"rejected", "noPayload"})
          => /\ played' = played
             /\ UNCHANGED <<error, script, finalAudioUrl, audioDuration,
                            isProcessing, isExporting>>]_vars

\* a preview started after the first run that got no payload while the
\* second run waited for its synthesis
C15_Witness ==
    /\ lastPreview = [outcome |-> "noPayload", pc |-> "generateFinalAudio"]
    /\ runs = 2
    /\ played = 0
    /\ previews = <<>>

\* what C17 says of every state of an extractFrames call: resolve is called
\* at most once and with exactly 12 frames, the k-th frame (k = 0..11) was
\* captured at k*duration/12, the capture times do not decrease, at most one
\* seek is outstanding, and none once the 12th frame is captured
C17_Safety ==
    /\ resolved <= 1
    /\ Len(exFrames) <= FrameCount
    /\ resolved = 1 => Len(exFrames) = FrameCount
    /\ \A k \in 1..Len(exFrames) :
          /\ exFrames[k].time.k = "rat"
          /\ exFrames[k].time.n * FrameCount
                = (k - 1) * exDuration.n * exFrames[k].time.d
    /\ \A k \in 1..Len(exFrames) : \A l \in k..Len(exFrames) :
          exFrames[k].time.n * exFrames[l].time.d
              <= exFrames[l].time.n * exFrames[k].time.d
    /\ Len(pendingSeeks) <= 1
    /\ Len(exFrames) >= FrameCount => pendingSeeks = <<>>

C20_Ended ==
    /\ pc = "idle"
    /\ ~isProcessing /\ ~isExporting
    /\ \/ finalAudioUrl # Null /\ error = Null
       \/ finalAudioUrl = Null /\ error # Null

\* C20: given that every collaborator call eventually returns or fails,
\* every started run eventually terminates with both flags cleared and
\* exactly one outcome: an exposed artifact and no error, or an error and no
\* artifact.
C20_RunTerminates ==
    /\ (pc # "idle") ~> C20_Ended
    /\ []((runs >= 1 /\ pc = "idle") => C20_Ended)

\* a first run that ended with an artifact and a second that ended in error
C20_Witness ==
    /\ runs = 2
    /\ C20_Ended
    /\ error # Null
    /\ script # Null

\* C21: for every configuration reachable from the initial one by gender and
\* persona changes, the persona recorded with the gender in a run's script
\* metadata equals the voice the same run's speech-synthesis request uses,
\* and so belongs to that gender's persona set.
C21_MetadataPersonaIsVoice ==
    \A i \in 1..Len(log) :
        log[i].ev = "synthRequest" =>
            /\ script # Null
            /\ script[1].metadata.persona = log[i].voice
            /\ script[1].metadata.persona \in C6_OwnSet(script[1].metadata.gender)

====
